---------------------------- MODULE Spec2Model ----------------------------
(***************************************************************************)
(* RNG90 driver (src/rng90.c, src/rng90.h): command/response framing over  *)
(* a two-wire bus.  One action per bus primitive call of the driver; the   *)
(* computations between two bus calls belong to the action of the call     *)
(* that follows them.  Widths are those of the default platform (avr0):    *)
(* unsigned char 8 bit, unsigned int 16 bit, unsigned long 32 bit, no      *)
(* structure padding, little-endian.                                       *)
(***************************************************************************)
EXTENDS Integers, Sequences, FiniteSets, TLC

(***************************************************************************)
(* Program constants (src/rng90.h).                                        *)
(***************************************************************************)
RNG90_ADDRESS == 64
RNG90_EXECUTE_COMMAND == 3
RNG90_OPERATION_INFO == 48
RNG90_OPERATION_INFO_PARAM1 == 0
RNG90_OPERATION_INFO_PARAM2 == 0
RNG90_OPERATION_RANDOM == 22
RNG90_OPERATION_RANDOM_PARAM1 == 0
RNG90_OPERATION_RANDOM_PARAM2 == 0
RNG90_OPERATION_RANDOM_DATA_SIZE == 20
RNG90_OPERATION_RANDOM_DATA == 0
RNG90_OPERATION_RANDOM_RNG_SIZE == 32
RNG90_OPERATION_READ == 2
RNG90_OPERATION_READ_PARAM1 == 1
RNG90_OPERATION_READ_PARAM2 == 0
RNG90_OPERATION_READ_SERIAL_SIZE == 8
RNG90_OPERATION_SELF_TEST == 119
RNG90_OPERATION_SELF_TEST_PARAM2 == 0
RNG90_INFO_EXECUTION_TIME_MS == 1
RNG90_RANDOM_EXECUTION_TIME_MS == 75
RNG90_READ_EXECUTION_TIME_MS == 1
RNG90_SELFTEST_EXECUTION_TIME_MS == 32
RNG90_CRC_POLYNOMIAL == 32773
RNG90_CRC_SIZE == 2
RNG90_STANDARD_FRAME_SIZE == 4
RNG90_INFO_FRAME_SIZE == 7
RNG90_NUMBER_FRAME_SIZE == 35
RNG90_SERIAL_FRAME_SIZE == 19

\* enum RNG90_Status_t
RNG90_Status_Success == 0
RNG90_Status_Parse_Error == 3
RNG90_Status_SelfTest_Error == 7
RNG90_Status_HealthTest_Error == 8
RNG90_Status_Execution_Error == 15
RNG90_Status_AfterWake_Indication == 17
RNG90_Status_TWI_Error == 240
RNG90_Status_Other_Error == 255

\* enum RNG90_Run_SelfTest_t
RNG90_Run_DRBG_SelfTest == 1
RNG90_Run_SHA256_SelfTest == 32
RNG90_Run_DBRG_SHA256_SelfTest == 33

\* enum RNG90_SelfTest_Status_t
RNG90_SelfTest_Success == 0
RNG90_SelfTest_Fail_DBRG == 1
RNG90_SelfTest_Not_Run_DBRG == 2
RNG90_SelfTest_Not_Run_SHA256 == 16
RNG90_SelfTest_Not_Run_Neither == 18
RNG90_SelfTest_Fail_SHA256 == 32
RNG90_SelfTest_Fail_DBRG_SHA256 == 33
RNG90_SelfTest_Error == 255

\* enum RNG90_Data_Status_t
RNG90_Data_Status_Valid == 0
RNG90_Data_Status_Invalid == 1

\* unsigned char rng90_buffer[87]
BufferSize == 87
\* sizeof(RNG90_Packet): count, opcode, param1 (1 byte each), param2, crc
\* (16-bit unsigned int each)
SizeofPacket == 7

\* The transport's direction codes, as passed to twi_address (twi.h is not
\* part of this repository: the codes are kept by name).
TWI_Write == "TWI_Write"
TWI_Read == "TWI_Read"
\* The acknowledge codes passed to twi_get, kept by name as well.
TWI_ACK == "TWI_ACK"
TWI_NACK == "TWI_NACK"

Byte == 0..255

(***************************************************************************)
(* Bounds of the model.                                                    *)
(***************************************************************************)
\* every declared length 0..MaxShortLen is delivered as the first byte
MaxShortLen == 36
\* how often the receive loop's 8-bit index may wrap round in one receive
MaxWraps == 1
\* the device's count of delivered bytes stops counting here
MaxReads == 260
\* bytes of the caller's memory behind numbers[31] and behind serial[7]
CallerSlack == 2

\* declared lengths beyond MaxShortLen: the last one that fits the buffer,
\* the first one that does not, and the largest
LongLens == {BufferSize + 3, BufferSize + 4, 255}
FirstLens == {l \in Byte : l <= MaxShortLen} \cup LongLens
\* the byte read as a new length after the loop index wrapped round
WrapLens == {0, RNG90_STANDARD_FRAME_SIZE}
\* first payload byte of the device's answer (every value for a standard
\* frame, whose single payload byte is the status)
PayloadSeeds == {0, 165}
\* difference of two consecutive payload bytes (odd: no two payload bytes of
\* a frame are equal)
PayloadSteps == {37}

\* with a fault on the line: the frame sizes of the operations, and the
\* bytes of the longest of them after the length byte
FaultLens == {RNG90_STANDARD_FRAME_SIZE, RNG90_INFO_FRAME_SIZE,
              RNG90_SERIAL_FRAME_SIZE}
FaultPositions == 1..(RNG90_SERIAL_FRAME_SIZE - 1)
FaultBits == 0..7

(***************************************************************************)
(* Fixed-width arithmetic.                                                 *)
(***************************************************************************)
U8(x) == x % 256
U16(x) == x % 65536
Bit(x, k) == (x \div (2 ^ k)) % 2
Lo(x) == x % 256
Hi(x) == (x \div 256) % 256

\* bitwise exclusive or of two numbers of n bits
RECURSIVE XorBits(_, _, _)
XorBits(a, b, n) ==
    IF n = 0 THEN 0
    ELSE (IF (a % 2) # (b % 2) THEN 1 ELSE 0)
         + 2 * XorBits(a \div 2, b \div 2, n - 1)
Xor8 == [a \in Byte |-> [b \in Byte |-> XorBits(a, b, 8)]]
\* exclusive or of two 16-bit numbers, byte by byte
Xor16(a, b) == 256 * Xor8[Hi(a)][Hi(b)] + Xor8[Lo(a)][Lo(b)]
FlipBit0(b) == IF b % 2 = 0 THEN b + 1 ELSE b - 1
FlipBit(b, n) == IF Bit(b, n) = 1 THEN b - 2 ^ n ELSE b + 2 ^ n

(***************************************************************************)
(* Checksum engine (utils/crc/crc16.h, outside this repository): a running *)
(* 16-bit CRC, polynomial RNG90_CRC_POLYNOMIAL, data bits taken least      *)
(* significant first, register shifted left, started from zero: the CRC    *)
(* the RNG90 computes over its frames (the Info command 07 30 00 00 00 is  *)
(* followed by 03 5D).                                                     *)
(***************************************************************************)
CRC16_INITIAL_VALUE == 0

\* the register c after the bits k..7 of a data byte went through it
RECURSIVE Crc16Bits(_, _, _)
Crc16Bits(c, byte, k) ==
    IF k = 8 THEN c
    ELSE LET shifted == U16(c * 2)
             next == IF Bit(byte, k) # Bit(c, 15)
                     THEN Xor16(shifted, RNG90_CRC_POLYNOMIAL)
                     ELSE shifted
         IN  Crc16Bits(next, byte, k + 1)

\* The CRC is linear over exclusive or: a byte's effect on the register is
\* the effect of a zero byte on the register, combined with the effect of
\* the byte on a zero register.  Both are tabulated once.
Crc16OfHigh == [h \in Byte |-> Crc16Bits(256 * h, 0, 0)]
Crc16OfData == [b \in Byte |-> Crc16Bits(0, b, 0)]

\* crc16_update(byte) on the register c
crc16_update(c, byte) ==
    Xor16(Xor16(256 * Lo(c), Crc16OfHigh[Hi(c)]), Crc16OfData[byte])

(***************************************************************************)
(* State.                                                                  *)
(***************************************************************************)
VARIABLES
    pc,            \* position of the running operation
    op,            \* the public operation called: "init", "selftest", ...
    packet,        \* RNG90_Packet of the running operation (a local)
    k,             \* loop index of the transmit loops
    crc16,         \* register of the checksum engine
    rng90_buffer,  \* unsigned char rng90_buffer[87]
    rng90_frame,   \* static RNG90_Frame rng90_frame
    i,             \* rng90_data: unsigned char i
    temp,          \* rng90_data: unsigned char temp
    crc,           \* rng90_data: unsigned int crc
    st,            \* value returned by rng90_selftest
    ret,           \* value returned by the public operation
    info,          \* caller's RNG90_Info
    numbers,       \* caller's buffer of rng90_random
    serial,        \* caller's buffer of rng90_serial
    twi,           \* the bus: "closed", or "open" between start and stop
    log,           \* bus and delay calls made so far, twi_get excepted
    wfail,         \* some twi_set of this call reported an error
    detected,      \* the driver looked at such a result and saw the error
    dev,           \* the device's side of the read transaction
    wraps,         \* times the index i of rng90_data wrapped round
    oob,           \* a store of rng90_data fell outside rng90_buffer
    frame,         \* RNG90_Frame frame of the running operation (a local)
    parked         \* the operation that does not run: an earlier call, or
                   \* a call that was interrupted or that interrupted

vars == <<pc, op, packet, k, crc16, rng90_buffer, rng90_frame, i, temp, crc,
          st, ret, info, numbers, serial, twi, log, wfail, detected, dev,
          wraps, oob, frame, parked>>

\* nothing returned yet / caller memory not written by the driver
None == 0 - 1

NoPacket == [count |-> 0, opcode |-> 0, param1 |-> 0, param2 |-> 0, crc |-> 0]
NoDevice == [len |-> None, seed |-> 0, step |-> 0, crc |-> CRC16_INITIAL_VALUE,
             n |-> 0, good |-> TRUE, nacks |-> 0, last |-> "none",
             fpos |-> 0, fbit |-> 0]

\* RNG90_Frame frame before its initialisation
NoFrame == [length |-> None, status |-> None]

\* no operation but the running one
NoContext == [state |-> "none", at |-> "none"]

\* calls seen on the bus
EvStart == <<"start", 0, 0>>
EvStop == <<"stop", 0, 0>>
EvAddress(a, d) == <<"address", a, d>>
EvSet(b) == <<"set", b, 0>>
EvWait(ms) == <<"wait", ms, 0>>

\* the state before the call, with the device d on the bus
Start(d) ==
    /\ pc = "idle"
    /\ op = "none"
    /\ packet = NoPacket
    /\ k = 0
    /\ crc16 = CRC16_INITIAL_VALUE
    /\ rng90_buffer = [j \in 0..(BufferSize - 1) |-> 0]
    /\ rng90_frame = [length |-> 0, status |-> RNG90_Data_Status_Valid]
    /\ i = 0
    /\ temp = 0
    /\ crc = 0
    /\ st = None
    /\ ret = None
    /\ info = [RFU |-> None, DeviceID |-> None, SiliconID |-> None,
               Revision |-> None]
    /\ numbers = [j \in 0..(RNG90_OPERATION_RANDOM_RNG_SIZE + CallerSlack - 1)
                     |-> None]
    /\ serial = [j \in 0..(RNG90_OPERATION_READ_SERIAL_SIZE + CallerSlack - 1)
                    |-> None]
    /\ twi = "closed"
    /\ log = <<>>
    /\ wfail = FALSE
    /\ detected = FALSE
    /\ dev = d
    /\ wraps = 0
    /\ oob = FALSE
    /\ frame = NoFrame
    /\ parked = NoContext

Init == Start(NoDevice)

rxVars == <<rng90_buffer, rng90_frame, i, temp, crc, dev, wraps, oob>>
outVars == <<st, ret, info, numbers, serial>>

(***************************************************************************)
(* The public operations: construction of the packet.                      *)
(***************************************************************************)
\* the number of extra payload bytes left out of the count
Packet_NoExtra(count, opcode, param1, param2) ==
    [count |-> 0, opcode |-> opcode, param1 |-> param1, param2 |-> param2,
     crc |-> 0]

Packet(count, opcode, param1, param2) ==
    [count |-> count, opcode |-> opcode, param1 |-> param1,
     param2 |-> param2, crc |-> 0]

Enter(name, p) ==
    /\ pc = "idle"
    /\ pc' = "tx_start"
    /\ op' = name
    /\ packet' = p
    /\ UNCHANGED <<k, crc16, twi, log, wfail, detected>>
    /\ UNCHANGED rxVars
    /\ UNCHANGED outVars
    /\ UNCHANGED <<frame, parked>>

\* rng90_init: if(rng90_selftest(RNG90_Run_DRBG_SelfTest) != ...
rng90_init ==
    Enter("init", Packet(0, RNG90_OPERATION_SELF_TEST, RNG90_Run_DRBG_SelfTest,
                         RNG90_OPERATION_SELF_TEST_PARAM2))

RunSelfTests == {RNG90_Run_DRBG_SelfTest, RNG90_Run_SHA256_SelfTest,
                 RNG90_Run_DBRG_SHA256_SelfTest}

rng90_selftest ==
    \E test \in RunSelfTests :
        Enter("selftest", Packet(0, RNG90_OPERATION_SELF_TEST, test,
                                 RNG90_OPERATION_SELF_TEST_PARAM2))

rng90_info ==
    Enter("info", Packet(0, RNG90_OPERATION_INFO, RNG90_OPERATION_INFO_PARAM1,
                         RNG90_OPERATION_INFO_PARAM2))

rng90_random ==
    Enter("random", Packet(RNG90_OPERATION_RANDOM_DATA_SIZE,
                           RNG90_OPERATION_RANDOM,
                           RNG90_OPERATION_RANDOM_PARAM1,
                           RNG90_OPERATION_RANDOM_PARAM2))

\* the serial number requested with param1 zero
rng90_serial_Param1Zero ==
    Enter("serial", Packet(0, RNG90_OPERATION_READ, 0,
                           RNG90_OPERATION_READ_PARAM2))

rng90_serial ==
    Enter("serial", Packet(0, RNG90_OPERATION_READ, RNG90_OPERATION_READ_PARAM1,
                           RNG90_OPERATION_READ_PARAM2))

(***************************************************************************)
(* Frame transmitter: rng90_write, rng90_command and the transmit part of  *)
(* rng90_random.                                                           *)
(***************************************************************************)
\* opcode and param1 taken in each other's place
PacketByte_Swapped(p, j) ==
    CASE j = 0 -> p.count
      [] j = 1 -> p.param1
      [] j = 2 -> p.opcode
      [] j = 3 -> Lo(p.param2)
      [] j = 4 -> Hi(p.param2)
      [] j = 5 -> Lo(p.crc)
      [] OTHER -> Hi(p.crc)

\* *(ptr + j): the packet as it lies in memory
PacketByte(p, j) ==
    CASE j = 0 -> p.count
      [] j = 1 -> p.opcode
      [] j = 2 -> p.param1
      [] j = 3 -> Lo(p.param2)
      [] j = 4 -> Hi(p.param2)
      [] j = 5 -> Lo(p.crc)
      [] OTHER -> Hi(p.crc)

\* the loop of rng90_write running over the whole packet
HeaderSize_WholePacket == SizeofPacket

\* number of packet bytes rng90_write sends
HeaderSize == SizeofPacket - RNG90_CRC_SIZE

\* twi_set(b): the byte goes on the bus; the transport reports success or
\* an error
twi_set(b, failed, checked) ==
    /\ twi = "open"
    /\ log' = Append(log, EvSet(b))
    /\ wfail' = (wfail \/ failed)
    /\ detected' = (detected \/ (failed /\ checked))

\* rng90_command / rng90_random: twi_start()
tx_start ==
    /\ pc = "tx_start"
    /\ twi' = "open"
    /\ log' = Append(log, EvStart)
    /\ pc' = "tx_address"
    /\ UNCHANGED <<op, packet, k, crc16, wfail, detected>>
    /\ UNCHANGED rxVars
    /\ UNCHANGED outVars
    /\ UNCHANGED <<frame, parked>>

\* rng90_write: packet->count += 7; crc16_init(); twi_address(.., TWI_Write)
rng90_write_address ==
    /\ pc = "tx_address"
    /\ packet' = [packet EXCEPT !.count = U8(packet.count + 7)]
    /\ crc16' = CRC16_INITIAL_VALUE
    /\ log' = Append(log, EvAddress(RNG90_ADDRESS, TWI_Write))
    /\ pc' = "tx_execute"
    /\ UNCHANGED <<op, k, twi, wfail, detected>>
    /\ UNCHANGED rxVars
    /\ UNCHANGED outVars
    /\ UNCHANGED <<frame, parked>>

\* the execute command byte taken into the checksum
rng90_write_execute_Accumulates ==
    /\ pc = "tx_execute"
    /\ \E failed \in BOOLEAN : twi_set(RNG90_EXECUTE_COMMAND, failed, FALSE)
    /\ crc16' = crc16_update(crc16, RNG90_EXECUTE_COMMAND)
    /\ k' = 0
    /\ pc' = "tx_header"
    /\ UNCHANGED <<op, packet, twi>>
    /\ UNCHANGED rxVars
    /\ UNCHANGED outVars
    /\ UNCHANGED <<frame, parked>>

\* rng90_write: twi_set(RNG90_EXECUTE_COMMAND), result ignored
rng90_write_execute ==
    /\ pc = "tx_execute"
    /\ \E failed \in BOOLEAN : twi_set(RNG90_EXECUTE_COMMAND, failed, FALSE)
    /\ k' = 0
    /\ pc' = "tx_header"
    /\ UNCHANGED <<op, packet, crc16, twi>>
    /\ UNCHANGED rxVars
    /\ UNCHANGED outVars
    /\ UNCHANGED <<frame, parked>>

\* where the transmission goes on after rng90_write returned
AfterWrite(name) == IF name = "random" THEN "tx_filler" ELSE "tx_crc_lo"

\* rng90_write: the loop over the packet's bytes, results ignored
rng90_write_header ==
    /\ pc = "tx_header"
    /\ k < HeaderSize
    /\ crc16' = crc16_update(crc16, PacketByte(packet, k))
    /\ \E failed \in BOOLEAN : twi_set(PacketByte(packet, k), failed, FALSE)
    /\ IF k + 1 < HeaderSize
       THEN /\ k' = k + 1
            /\ pc' = pc
       ELSE /\ k' = 0
            /\ pc' = AfterWrite(op)
    /\ UNCHANGED <<op, packet, twi>>
    /\ UNCHANGED rxVars
    /\ UNCHANGED outVars
    /\ UNCHANGED <<frame, parked>>

\* the failed write is tried again
AfterFiller_Retries(failed, idx) ==
    IF failed THEN "tx_filler"
    ELSE IF idx + 1 < RNG90_OPERATION_RANDOM_DATA_SIZE THEN "tx_filler"
    ELSE "tx_crc_lo"

\* the failed write ends the loop but not the function
AfterFiller_Breaks(failed, idx) ==
    IF failed THEN "tx_crc_lo"
    ELSE IF idx + 1 < RNG90_OPERATION_RANDOM_DATA_SIZE THEN "tx_filler"
    ELSE "tx_crc_lo"

\* where rng90_random goes on after the write of filler byte idx: a failed
\* write leaves the function through twi_stop(), the last byte ends the loop
AfterFiller(failed, idx) ==
    IF failed THEN "tx_abort"
    ELSE IF idx + 1 < RNG90_OPERATION_RANDOM_DATA_SIZE THEN "tx_filler"
    ELSE "tx_crc_lo"

\* the filler byte accumulated before its write is looked at
rng90_random_filler_AccumulatesFirst ==
    /\ pc = "tx_filler"
    /\ k < RNG90_OPERATION_RANDOM_DATA_SIZE
    /\ crc16' = crc16_update(crc16, RNG90_OPERATION_RANDOM_DATA)
    /\ \E failed \in BOOLEAN :
        /\ twi_set(RNG90_OPERATION_RANDOM_DATA, failed, TRUE)
        /\ pc' = AfterFiller(failed, k)
        /\ IF failed
           THEN UNCHANGED k
           ELSE k' = IF k + 1 < RNG90_OPERATION_RANDOM_DATA_SIZE
                     THEN k + 1 ELSE 0
    /\ UNCHANGED <<op, packet, twi>>
    /\ UNCHANGED rxVars
    /\ UNCHANGED outVars
    /\ UNCHANGED <<frame, parked>>

\* rng90_random: one pass of the filler loop
rng90_random_filler ==
    /\ pc = "tx_filler"
    /\ k < RNG90_OPERATION_RANDOM_DATA_SIZE
    /\ \E failed \in BOOLEAN :
        /\ twi_set(RNG90_OPERATION_RANDOM_DATA, failed, TRUE)
        /\ pc' = AfterFiller(failed, k)
        /\ IF failed
           THEN UNCHANGED <<k, crc16>>
           ELSE /\ crc16' = crc16_update(crc16, RNG90_OPERATION_RANDOM_DATA)
                /\ k' = IF k + 1 < RNG90_OPERATION_RANDOM_DATA_SIZE
                        THEN k + 1 ELSE 0
    /\ UNCHANGED <<op, packet, twi>>
    /\ UNCHANGED rxVars
    /\ UNCHANGED outVars
    /\ UNCHANGED <<frame, parked>>

\* the error return taken without twi_stop()
rng90_random_abort_NoStop ==
    /\ pc = "tx_abort"
    /\ ret' = RNG90_Status_TWI_Error
    /\ pc' = "done"
    /\ UNCHANGED <<op, packet, k, crc16, twi, log, wfail, detected, st, info,
                   numbers, serial>>
    /\ UNCHANGED rxVars
    /\ UNCHANGED <<frame, parked>>

\* rng90_random: twi_stop(); return RNG90_Status_TWI_Error;
rng90_random_abort ==
    /\ pc = "tx_abort"
    /\ twi' = "closed"
    /\ log' = Append(log, EvStop)
    /\ ret' = RNG90_Status_TWI_Error
    /\ pc' = "done"
    /\ UNCHANGED <<op, packet, k, crc16, wfail, detected, st, info, numbers,
                   serial>>
    /\ UNCHANGED rxVars
    /\ UNCHANGED <<frame, parked>>

\* packet.crc = crc16_result(); twi_set(low byte), result ignored
tx_crc_lo ==
    /\ pc = "tx_crc_lo"
    /\ packet' = [packet EXCEPT !.crc = crc16]
    /\ \E failed \in BOOLEAN : twi_set(Lo(crc16), failed, FALSE)
    /\ pc' = "tx_crc_hi"
    /\ UNCHANGED <<op, k, crc16, twi>>
    /\ UNCHANGED rxVars
    /\ UNCHANGED outVars
    /\ UNCHANGED <<frame, parked>>

\* twi_set(high byte), result ignored
tx_crc_hi ==
    /\ pc = "tx_crc_hi"
    /\ \E failed \in BOOLEAN : twi_set(Hi(packet.crc), failed, FALSE)
    /\ pc' = "tx_stop"
    /\ UNCHANGED <<op, packet, k, crc16, twi>>
    /\ UNCHANGED rxVars
    /\ UNCHANGED outVars
    /\ UNCHANGED <<frame, parked>>

\* twi_stop() at the end of the transmission
tx_stop ==
    /\ pc = "tx_stop"
    /\ twi' = "closed"
    /\ log' = Append(log, EvStop)
    /\ pc' = "wait"
    /\ UNCHANGED <<op, packet, k, crc16, wfail, detected>>
    /\ UNCHANGED rxVars
    /\ UNCHANGED outVars
    /\ UNCHANGED <<frame, parked>>

\* the settle time of the read command used for every operation
ExecutionTime_AlwaysRead(name) == RNG90_READ_EXECUTION_TIME_MS

\* the operation's settle time
ExecutionTime(name) ==
    CASE name \in {"init", "selftest"} -> RNG90_SELFTEST_EXECUTION_TIME_MS
      [] name = "info" -> RNG90_INFO_EXECUTION_TIME_MS
      [] name = "random" -> RNG90_RANDOM_EXECUTION_TIME_MS
      [] OTHER -> RNG90_READ_EXECUTION_TIME_MS

\* systick_timer_wait_ms(...)
wait_ms ==
    /\ pc = "wait"
    /\ log' = Append(log, EvWait(ExecutionTime(op)))
    /\ pc' = "rx_start"
    /\ UNCHANGED <<op, packet, k, crc16, twi, wfail, detected>>
    /\ UNCHANGED rxVars
    /\ UNCHANGED outVars
    /\ UNCHANGED <<frame, parked>>


(***************************************************************************)
(* The device's side of a read transaction.  The first byte it delivers is *)
(* the declared length; payload byte j is seed + j * step; the two bytes   *)
(* after the payload are the checksum of what was delivered, or that       *)
(* checksum with one bit flipped.                                          *)
(***************************************************************************)
PayloadByte(d, j) == U8(d.seed + d.step * j)

Seeds(len) == IF len = RNG90_STANDARD_FRAME_SIZE THEN Byte ELSE PayloadSeeds

\* the answers of the device: declared length and payload
Answers ==
    UNION {{[len |-> l, seed |-> s, step |-> t] :
              s \in Seeds(l), t \in PayloadSteps} : l \in FirstLens}

\* a bus on which every payload byte reads as zero
ZeroAnswers ==
    {[len |-> l, seed |-> 0, step |-> 0] : l \in WrapLens}

\* the device after a twi_get(&temp, ack): one more byte read, the last
\* acknowledge code and the number of reads that were not acknowledged
Got(d, ack) ==
    [d EXCEPT !.n = IF d.n < MaxReads THEN d.n + 1 ELSE d.n,
              !.last = ack,
              !.nacks = IF ack = TWI_NACK /\ d.nacks < MaxReads
                        THEN d.nacks + 1 ELSE d.nacks]

\* the device after it delivered byte b of length or payload
Delivered(d, b) ==
    [Got(d, TWI_ACK) EXCEPT !.crc = crc16_update(d.crc, b)]

\* what arrives of byte b, the byte number d.n of the frame: with a fault on
\* the line (fpos > 0) bit fbit of byte number fpos arrives flipped
Received(d, b) ==
    IF d.fpos > 0 /\ d.fpos = d.n THEN FlipBit(b, d.fbit) ELSE b

\* what may arrive of a checksum byte b: without a fault on the line the
\* byte or the byte with its lowest bit flipped
ChecksumBytes(d, b) ==
    IF d.fpos > 0 THEN {Received(d, b)} ELSE {b, FlipBit0(b)}

(***************************************************************************)
(* Frame receiver: rng90_data.                                             *)
(***************************************************************************)
\* the checksum engine left as the call found it
rng90_data_start_KeepsEngine ==
    /\ pc = "rx_start"
    /\ temp' = 0
    /\ crc' = 0
    /\ rng90_frame' = [length |-> U8(1 + RNG90_CRC_SIZE),
                       status |-> RNG90_Data_Status_Invalid]
    /\ twi' = "open"
    /\ log' = Append(log, EvStart)
    /\ pc' = "rx_address"
    /\ UNCHANGED <<op, packet, k, crc16, wfail, detected, rng90_buffer, i, dev,
                   wraps, oob>>
    /\ UNCHANGED outVars
    /\ UNCHANGED <<frame, parked>>

\* rng90_data: crc16_init(), temp, crc, rng90_frame.length = 1 + 2,
\* rng90_frame.status = Invalid; twi_start()
rng90_data_start ==
    /\ pc = "rx_start"
    /\ crc16' = CRC16_INITIAL_VALUE
    /\ temp' = 0
    /\ crc' = 0
    /\ rng90_frame' = [length |-> U8(1 + RNG90_CRC_SIZE),
                       status |-> RNG90_Data_Status_Invalid]
    /\ twi' = "open"
    /\ log' = Append(log, EvStart)
    /\ pc' = "rx_address"
    /\ UNCHANGED <<op, packet, k, wfail, detected, rng90_buffer, i, dev, wraps,
                   oob>>
    /\ UNCHANGED outVars
    /\ UNCHANGED <<frame, parked>>

\* twi_address(RNG90_ADDRESS, TWI_Read); the loop starts with i = 0
rng90_data_address ==
    /\ pc = "rx_address"
    /\ log' = Append(log, EvAddress(RNG90_ADDRESS, TWI_Read))
    /\ i' = 0
    /\ pc' = "rx_loop"
    /\ UNCHANGED <<op, packet, k, crc16, twi, wfail, detected, rng90_buffer,
                   rng90_frame, temp, crc, dev, wraps, oob>>
    /\ UNCHANGED outVars
    /\ UNCHANGED <<frame, parked>>

\* i < rng90_frame.length - RNG90_CRC_SIZE: RNG90_CRC_SIZE is 2UL, so both
\* sides are converted to unsigned long; for a length below 2 the difference
\* wraps round to 2^32 + length - 2, which is above every value of i
LoopCondition(idx, length) ==
    IF length < RNG90_CRC_SIZE THEN TRUE ELSE idx < length - RNG90_CRC_SIZE

\* *(data + j) = b with data = rng90_buffer: inside the array the element is
\* written; outside it the store hits whatever the linker placed behind the
\* array, which is rng90_frame (its first member, length) or an object this
\* module does not use
Store(j, b, aliased) ==
    IF j < BufferSize
    THEN /\ rng90_buffer' = [rng90_buffer EXCEPT ![j] = b]
         /\ UNCHANGED <<rng90_frame, oob>>
    ELSE /\ oob' = TRUE
         /\ rng90_frame' = IF aliased /\ j = BufferSize
                           THEN [rng90_frame EXCEPT !.length = b]
                           ELSE rng90_frame
         /\ UNCHANGED rng90_buffer

Layouts(j) == IF j = BufferSize THEN BOOLEAN ELSE {FALSE}

\* the length byte left out of the checksum
LoopPass_SkipsLength(b) ==
    /\ temp' = b
    /\ crc16' = IF i = 0 THEN crc16 ELSE crc16_update(crc16, b)
    /\ IF i = 0
       THEN /\ rng90_frame' = [rng90_frame EXCEPT !.length = b]
            /\ UNCHANGED <<rng90_buffer, oob>>
       ELSE \E aliased \in Layouts(i - 1) : Store(i - 1, b, aliased)
    /\ i' = U8(i + 1)

\* one pass of the loop of rng90_data for the byte b that twi_get delivered:
\* crc16_update(temp); the length (i == 0) or a payload byte is stored; i++
LoopPass(b) ==
    /\ temp' = b
    /\ crc16' = crc16_update(crc16, b)
    /\ IF i = 0
       THEN /\ rng90_frame' = [rng90_frame EXCEPT !.length = b]
            /\ UNCHANGED <<rng90_buffer, oob>>
       ELSE \E aliased \in Layouts(i - 1) : Store(i - 1, b, aliased)
    /\ i' = U8(i + 1)

\* crc = (0x00FF & temp) for the byte b that twi_get delivered
ChecksumLowPass(b) ==
    /\ temp' = b
    /\ crc' = b

\* the top bit of the high checksum byte masked away
ChecksumHighPass_Masked(b) ==
    /\ temp' = b
    /\ crc' = crc + 256 * (b % 128)

\* crc |= (0xFF00 & (temp<<8)) for the byte b that twi_get delivered
ChecksumHighPass(b) ==
    /\ temp' = b
    /\ crc' = crc + 256 * b

\* one pass of the loop of rng90_data: twi_get(&temp, TWI_ACK) and what
\* follows it; the device delivers its answer's length, then its payload
rng90_data_loop(answers, bounded) ==
    /\ pc = "rx_loop"
    /\ LoopCondition(i, rng90_frame.length)
    /\ bounded => wraps <= MaxWraps
    /\ IF i = 0
       THEN \E a \in (IF dev.n = 0 THEN answers
                      ELSE {[len |-> l, seed |-> dev.seed, step |-> dev.step] :
                              l \in WrapLens}) :
              /\ dev' = Delivered([dev EXCEPT
                                     !.len = IF dev.n = 0 THEN a.len ELSE @,
                                     !.seed = a.seed, !.step = a.step], a.len)
              /\ LoopPass(a.len)
       ELSE LET b == PayloadByte(dev, i - 1)
            IN  /\ dev' = Delivered(dev, b)
                /\ LoopPass(Received(dev, b))
    /\ wraps' = IF bounded /\ i = 255 THEN wraps + 1 ELSE wraps
    /\ UNCHANGED <<pc, op, packet, k, twi, log, wfail, detected, crc>>
    /\ UNCHANGED outVars
    /\ UNCHANGED <<frame, parked>>

\* after the loop: twi_get(&temp, TWI_ACK); crc = (0x00FF & temp);
rng90_data_crc_lo ==
    /\ pc = "rx_loop"
    /\ ~LoopCondition(i, rng90_frame.length)
    /\ \E b \in ChecksumBytes(dev, Lo(dev.crc)) :
        /\ ChecksumLowPass(b)
        /\ dev' = [Got(dev, TWI_ACK) EXCEPT !.good = (b = Lo(dev.crc))]
    /\ pc' = "rx_crc_hi"
    /\ UNCHANGED <<op, packet, k, crc16, twi, log, wfail, detected,
                   rng90_buffer, rng90_frame, i, wraps, oob>>
    /\ UNCHANGED outVars
    /\ UNCHANGED <<frame, parked>>

\* twi_get(&temp, TWI_NACK); crc |= (0xFF00 & (temp<<8));
rng90_data_crc_hi ==
    /\ pc = "rx_crc_hi"
    /\ \E b \in ChecksumBytes(dev, Hi(dev.crc)) :
        /\ ChecksumHighPass(b)
        /\ dev' = [Got(dev, TWI_NACK)
                     EXCEPT !.good = (dev.good /\ b = Hi(dev.crc))]
    /\ pc' = "rx_stop"
    /\ UNCHANGED <<op, packet, k, crc16, twi, log, wfail, detected,
                   rng90_buffer, rng90_frame, i, wraps, oob>>
    /\ UNCHANGED outVars
    /\ UNCHANGED <<frame, parked>>

\* only the low bytes of the two checksums compared
FrameStatus_LowByteOnly(received, computed) ==
    IF Lo(received) # Lo(computed) THEN RNG90_Data_Status_Invalid
    ELSE RNG90_Data_Status_Valid

\* the status rng90_data gives the frame: crc != crc16_result()
FrameStatus(received, computed) ==
    IF received # computed THEN RNG90_Data_Status_Invalid
    ELSE RNG90_Data_Status_Valid

\* an invalid frame is read once more
AfterData_ReadsAgain(status) ==
    IF status = RNG90_Data_Status_Invalid THEN "rx_start" ELSE "classify"

\* where the operation goes on after rng90_data: whatever the frame's
\* status, rng90_data returns to its caller, which classifies the frame
AfterData(status) == "classify"

\* twi_stop(); rng90_frame.status is set; return rng90_frame: the caller's
\* RNG90_Frame frame is initialised with the value returned
rng90_data_stop ==
    /\ pc = "rx_stop"
    /\ twi' = "closed"
    /\ log' = Append(log, EvStop)
    /\ rng90_frame' = [rng90_frame EXCEPT !.status = FrameStatus(crc, crc16)]
    /\ frame' = rng90_frame'
    /\ pc' = AfterData(FrameStatus(crc, crc16))
    /\ UNCHANGED <<op, packet, k, crc16, wfail, detected, rng90_buffer, i,
                   temp, crc, dev, wraps, oob>>
    /\ UNCHANGED outVars
    /\ UNCHANGED parked


(***************************************************************************)
(* Response classifier: the part of each operation after rng90_data.       *)
(***************************************************************************)
\* (frame.length == RNG90_STANDARD_FRAME_SIZE) && (frame.status == Valid)
IsStandardFrame(f) ==
    f.length = RNG90_STANDARD_FRAME_SIZE /\ f.status = RNG90_Data_Status_Valid

\* the data branch taken without looking at the frame's status
IsDataFrame_IgnoresStatus(f, size) == f.length = size

\* the data branch taken for a valid frame of any length
IsDataFrame_AnyLength(f, size) == f.status = RNG90_Data_Status_Valid

\* frame.length == <the operation's frame size> && (frame.status == Valid)
IsDataFrame(f, size) ==
    f.length = size /\ f.status = RNG90_Data_Status_Valid

\* the status taken from the second buffer element
StatusByte_OffByOne(buf) == buf[1]

\* (RNG90_SelfTest_Status)(rng90_buffer[0])
StatusByte(buf) == buf[0]

\* value returned by rng90_info, rng90_random and rng90_serial
DataResult(f, buf, size) ==
    IF IsStandardFrame(f) THEN StatusByte(buf)
    ELSE IF IsDataFrame(f, size) THEN RNG90_Status_Success
    ELSE RNG90_Status_Other_Error

\* the status byte handed out for every frame of four bytes, valid or not
SelfTestResult_IgnoresStatus(f, buf) ==
    IF f.length = RNG90_STANDARD_FRAME_SIZE THEN StatusByte(buf)
    ELSE RNG90_SelfTest_Error

\* value returned by rng90_selftest
SelfTestResult(f, buf) ==
    IF IsStandardFrame(f) THEN StatusByte(buf) ELSE RNG90_SelfTest_Error

\* the self-test code handed on as the result of rng90_init
InitResult_PassesThrough(s) == s

\* value returned by rng90_init for the value rng90_selftest returned
InitResult(s) ==
    IF s # RNG90_SelfTest_Success THEN RNG90_Status_SelfTest_Error
    ELSE RNG90_Status_Success

\* DeviceID and SiliconID taken from each other's buffer element
InfoFields_Swapped(buf) ==
    [RFU |-> buf[0], DeviceID |-> buf[2], SiliconID |-> buf[1],
     Revision |-> buf[3]]

\* info->RFU = rng90_buffer[0]; ... info->Revision = rng90_buffer[3];
InfoFields(buf) ==
    [RFU |-> buf[0], DeviceID |-> buf[1], SiliconID |-> buf[2],
     Revision |-> buf[3]]

\* the copy loop running one element too far
CopyBuffer_OneMore(dst, buf, n) ==
    [j \in DOMAIN dst |-> IF j <= n THEN buf[j] ELSE dst[j]]

\* the copy loop filling the destination back to front
CopyBuffer_Reversed(dst, buf, n) ==
    [j \in DOMAIN dst |-> IF j < n THEN buf[n - 1 - j] ELSE dst[j]]

\* for (i = 0; i < n; i++) *(dst + i) = rng90_buffer[i];
CopyBuffer(dst, buf, n) ==
    [j \in DOMAIN dst |-> IF j < n THEN buf[j] ELSE dst[j]]

\* the output filled before the frame is classified
TakesData_OnStandardToo(f, size) == f.status = RNG90_Data_Status_Valid

\* whether the data branch of an operation is taken
TakesData(f, size) == ~IsStandardFrame(f) /\ IsDataFrame(f, size)

rng90_selftest_return ==
    /\ pc = "classify"
    /\ op \in {"selftest", "init"}
    /\ st' = SelfTestResult(frame, rng90_buffer)
    /\ IF op = "init"
       THEN /\ pc' = "init_return"
            /\ UNCHANGED ret
       ELSE /\ pc' = "done"
            /\ ret' = SelfTestResult(frame, rng90_buffer)
    /\ UNCHANGED <<op, packet, k, crc16, twi, log, wfail, detected, info,
                   numbers, serial>>
    /\ UNCHANGED rxVars
    /\ UNCHANGED <<frame, parked>>

rng90_init_return ==
    /\ pc = "init_return"
    /\ ret' = InitResult(st)
    /\ pc' = "done"
    /\ UNCHANGED <<op, packet, k, crc16, twi, log, wfail, detected, st, info,
                   numbers, serial>>
    /\ UNCHANGED rxVars
    /\ UNCHANGED <<frame, parked>>

rng90_info_return ==
    /\ pc = "classify"
    /\ op = "info"
    /\ ret' = DataResult(frame, rng90_buffer, RNG90_INFO_FRAME_SIZE)
    /\ info' = IF TakesData(frame, RNG90_INFO_FRAME_SIZE)
               THEN InfoFields(rng90_buffer) ELSE info
    /\ pc' = "done"
    /\ UNCHANGED <<op, packet, k, crc16, twi, log, wfail, detected, st,
                   numbers, serial>>
    /\ UNCHANGED rxVars
    /\ UNCHANGED <<frame, parked>>

rng90_random_return ==
    /\ pc = "classify"
    /\ op = "random"
    /\ ret' = DataResult(frame, rng90_buffer, RNG90_NUMBER_FRAME_SIZE)
    /\ numbers' = IF TakesData(frame, RNG90_NUMBER_FRAME_SIZE)
                  THEN CopyBuffer(numbers, rng90_buffer,
                                  RNG90_OPERATION_RANDOM_RNG_SIZE)
                  ELSE numbers
    /\ pc' = "done"
    /\ UNCHANGED <<op, packet, k, crc16, twi, log, wfail, detected, st, info,
                   serial>>
    /\ UNCHANGED rxVars
    /\ UNCHANGED <<frame, parked>>

rng90_serial_return ==
    /\ pc = "classify"
    /\ op = "serial"
    /\ ret' = DataResult(frame, rng90_buffer, RNG90_SERIAL_FRAME_SIZE)
    /\ serial' = IF TakesData(frame, RNG90_SERIAL_FRAME_SIZE)
                 THEN CopyBuffer(serial, rng90_buffer,
                                 RNG90_OPERATION_READ_SERIAL_SIZE)
                 ELSE serial
    /\ pc' = "done"
    /\ UNCHANGED <<op, packet, k, crc16, twi, log, wfail, detected, st, info,
                   numbers>>
    /\ UNCHANGED rxVars
    /\ UNCHANGED <<frame, parked>>

(***************************************************************************)
(* More than one call.  An operation's context is what the C program keeps *)
(* for each call: its position, the locals and results, the caller's       *)
(* objects, and, for the properties, what the bus did during the call.     *)
(* rng90_buffer, rng90_frame, the checksum engine and the bus belong to    *)
(* no call.                                                                *)
(***************************************************************************)
\* the running operation and the static storage, as they are now
Context(s) ==
    [state |-> s, at |-> pc, pc |-> pc, op |-> op, packet |-> packet, k |-> k,
     i |-> i, temp |-> temp, crc |-> crc, st |-> st, ret |-> ret,
     info |-> info, numbers |-> numbers, serial |-> serial, log |-> log,
     wfail |-> wfail, detected |-> detected, dev |-> dev, wraps |-> wraps,
     oob |-> oob, frame |-> frame, rng90_buffer |-> rng90_buffer,
     rng90_frame |-> rng90_frame]

\* an operation not yet called, with output objects not yet written
FreshContext ==
    [pc |-> "idle", op |-> "none", packet |-> NoPacket, k |-> 0, i |-> 0,
     temp |-> 0, crc |-> 0, st |-> None, ret |-> None,
     info |-> [RFU |-> None, DeviceID |-> None, SiliconID |-> None,
               Revision |-> None],
     numbers |-> [j \in 0..(RNG90_OPERATION_RANDOM_RNG_SIZE + CallerSlack - 1)
                     |-> None],
     serial |-> [j \in 0..(RNG90_OPERATION_READ_SERIAL_SIZE + CallerSlack - 1)
                    |-> None],
     log |-> <<>>, wfail |-> FALSE, detected |-> FALSE, dev |-> NoDevice,
     wraps |-> 0, oob |-> FALSE, frame |-> NoFrame]

\* the processor goes on with the operation of context c
Runs(c) ==
    /\ pc' = c.pc
    /\ op' = c.op
    /\ packet' = c.packet
    /\ k' = c.k
    /\ i' = c.i
    /\ temp' = c.temp
    /\ crc' = c.crc
    /\ st' = c.st
    /\ ret' = c.ret
    /\ info' = c.info
    /\ numbers' = c.numbers
    /\ serial' = c.serial
    /\ log' = c.log
    /\ wfail' = c.wfail
    /\ detected' = c.detected
    /\ dev' = c.dev
    /\ wraps' = c.wraps
    /\ oob' = c.oob
    /\ frame' = c.frame

\* the interrupted operation given a receive buffer and a frame descriptor
\* of its own
Resumes_PrivateReceive(c) ==
    /\ Runs(c)
    /\ rng90_buffer' = c.rng90_buffer
    /\ rng90_frame' = c.rng90_frame
    /\ UNCHANGED <<crc16, twi>>

\* the interrupted operation goes on: the static storage is as the
\* interrupting operation left it
Resumes(c) ==
    /\ Runs(c)
    /\ UNCHANGED <<crc16, rng90_buffer, rng90_frame, twi>>

\* the caller calls a second operation after the first returned; of the
\* first one the properties keep what the bus delivered to it
call_again ==
    /\ pc = "done"
    /\ parked.state = "none"
    /\ parked' = [state |-> "earlier", at |-> pc, dev |-> dev]
    /\ Runs(FreshContext)
    /\ UNCHANGED <<crc16, rng90_buffer, rng90_frame, twi>>

\* where the model lets an interrupt come in: during the settle delay and
\* between the return of rng90_data and the classification of its frame
InterruptPoints == {"wait", "classify"}

\* an interrupt handler calls an operation while another one is running
interrupt ==
    /\ pc \in InterruptPoints
    /\ parked.state = "none"
    /\ parked' = Context("interrupted")
    /\ Runs(FreshContext)
    /\ UNCHANGED <<crc16, rng90_buffer, rng90_frame, twi>>

\* the handler's operation returned: the interrupted operation goes on
resume ==
    /\ pc = "done"
    /\ parked.state = "interrupted"
    /\ parked' = [Context("finished") EXCEPT !.at = parked.pc]
    /\ Resumes(parked)

(***************************************************************************)
(* A loopback transport: the read transaction delivers the bytes that the  *)
(* write transaction of the same call put on the bus after the execute     *)
(* byte: count, opcode, param1, param2, extra payload, checksum.           *)
(***************************************************************************)
\* byte number n of the transmitted frame: the calls before it are
\* twi_start, twi_address and twi_set of the execute byte
Wire(n) == log[4 + n][2]

\* one pass of the loop of rng90_data, twi_get delivering the looped byte
loopback_data_loop ==
    /\ pc = "rx_loop"
    /\ LoopCondition(i, rng90_frame.length)
    /\ LET b == Wire(dev.n)
       IN  /\ dev' = Delivered([dev EXCEPT !.len = IF dev.n = 0 THEN b ELSE @],
                               b)
           /\ LoopPass(b)
    /\ UNCHANGED <<pc, op, packet, k, twi, log, wfail, detected, crc, wraps>>
    /\ UNCHANGED outVars
    /\ UNCHANGED <<frame, parked>>

\* twi_get(&temp, TWI_ACK) delivering the looped low checksum byte
loopback_data_crc_lo ==
    /\ pc = "rx_loop"
    /\ ~LoopCondition(i, rng90_frame.length)
    /\ LET b == Wire(dev.n)
       IN  /\ ChecksumLowPass(b)
           /\ dev' = [Got(dev, TWI_ACK) EXCEPT !.good = (b = Lo(dev.crc))]
    /\ pc' = "rx_crc_hi"
    /\ UNCHANGED <<op, packet, k, crc16, twi, log, wfail, detected,
                   rng90_buffer, rng90_frame, i, wraps, oob>>
    /\ UNCHANGED outVars
    /\ UNCHANGED <<frame, parked>>

\* twi_get(&temp, TWI_NACK) delivering the looped high checksum byte
loopback_data_crc_hi ==
    /\ pc = "rx_crc_hi"
    /\ LET b == Wire(dev.n)
       IN  /\ ChecksumHighPass(b)
           /\ dev' = [Got(dev, TWI_NACK)
                        EXCEPT !.good = (dev.good /\ b = Hi(dev.crc))]
    /\ pc' = "rx_stop"
    /\ UNCHANGED <<op, packet, k, crc16, twi, log, wfail, detected,
                   rng90_buffer, rng90_frame, i, wraps, oob>>
    /\ UNCHANGED outVars
    /\ UNCHANGED <<frame, parked>>

(***************************************************************************)
(* Specifications.                                                         *)
(***************************************************************************)
Transmit ==
    \/ tx_start
    \/ rng90_write_address
    \/ rng90_write_execute
    \/ rng90_write_header
    \/ rng90_random_filler
    \/ rng90_random_abort
    \/ tx_crc_lo
    \/ tx_crc_hi
    \/ tx_stop
    \/ wait_ms

Call ==
    \/ rng90_init
    \/ rng90_selftest
    \/ rng90_info
    \/ rng90_random
    \/ rng90_serial

Return ==
    \/ rng90_selftest_return
    \/ rng90_init_return
    \/ rng90_info_return
    \/ rng90_random_return
    \/ rng90_serial_return

ReceiveEnd ==
    \/ rng90_data_start
    \/ rng90_data_address
    \/ rng90_data_crc_lo
    \/ rng90_data_crc_hi
    \/ rng90_data_stop

Receive == rng90_data_loop(Answers, TRUE) \/ ReceiveEnd

Next == Call \/ Transmit \/ Receive \/ Return

Spec == Init /\ [][Next]_vars

\* The driver is one sequential program on blocking primitives that all
\* return: whenever it has a next step it takes it.  The bus reads zero and
\* the receive loop runs as long as the code lets it.
ReceiveLive == rng90_data_loop(ZeroAnswers, FALSE) \/ ReceiveEnd

NextLive == Call \/ Transmit \/ ReceiveLive \/ Return

SpecLive == Init /\ [][NextLive]_vars /\ WF_vars(NextLive)

\* The calls with the bus looped back.
ReceiveLoop ==
    \/ rng90_data_start
    \/ rng90_data_address
    \/ loopback_data_loop
    \/ loopback_data_crc_lo
    \/ loopback_data_crc_hi
    \/ rng90_data_stop

NextLoop == Call \/ Transmit \/ ReceiveLoop \/ Return

SpecLoop == Init /\ [][NextLoop]_vars

\* The calls with one bit of one byte after the length byte flipped on the
\* line.
FaultAnswers ==
    {[len |-> l, seed |-> s, step |-> t] :
        l \in FaultLens, s \in PayloadSeeds, t \in PayloadSteps}

\* before the call: the line gets the fault that flips bit n of byte p
line_fault ==
    /\ pc = "idle"
    /\ dev.fpos = 0
    /\ \E p \in FaultPositions, n \in FaultBits :
          dev' = [dev EXCEPT !.fpos = p, !.fbit = n]
    /\ UNCHANGED <<pc, op, packet, k, crc16, twi, log, wfail, detected,
                   rng90_buffer, rng90_frame, i, temp, crc, wraps, oob>>
    /\ UNCHANGED outVars
    /\ UNCHANGED <<frame, parked>>

ReceiveFault == rng90_data_loop(FaultAnswers, TRUE) \/ ReceiveEnd

NextFault == line_fault \/ Call \/ Transmit \/ ReceiveFault \/ Return

SpecFault == Init /\ [][NextFault]_vars

\* Two calls one after the other.
AgainLens == {RNG90_STANDARD_FRAME_SIZE - 1, RNG90_STANDARD_FRAME_SIZE,
              RNG90_INFO_FRAME_SIZE, RNG90_SERIAL_FRAME_SIZE,
              RNG90_NUMBER_FRAME_SIZE, BufferSize + RNG90_STANDARD_FRAME_SIZE}

AgainAnswers ==
    {[len |-> l, seed |-> s, step |-> t] :
        l \in AgainLens, s \in PayloadSeeds, t \in PayloadSteps}

ReceiveAgain == rng90_data_loop(AgainAnswers, TRUE) \/ ReceiveEnd

NextAgain == Call \/ Transmit \/ ReceiveAgain \/ Return \/ call_again

SpecAgain == Init /\ [][NextAgain]_vars

\* A call interrupted by a handler that makes a call.
TwoLens == {RNG90_STANDARD_FRAME_SIZE, RNG90_INFO_FRAME_SIZE}

TwoAnswers ==
    {[len |-> l, seed |-> s, step |-> t] :
        l \in TwoLens, s \in PayloadSeeds, t \in PayloadSteps}

ReceiveTwo == rng90_data_loop(TwoAnswers, TRUE) \/ ReceiveEnd

NextTwo == Call \/ Transmit \/ ReceiveTwo \/ Return \/ interrupt \/ resume

SpecTwo == Init /\ [][NextTwo]_vars

(***************************************************************************)
(* Vocabulary of the properties.                                           *)
(***************************************************************************)
DataOps == {"info", "random", "serial"}

\* the frame size an operation takes for its data
FrameSize(name) ==
    CASE name = "info" -> RNG90_INFO_FRAME_SIZE
      [] name = "random" -> RNG90_NUMBER_FRAME_SIZE
      [] name = "serial" -> RNG90_SERIAL_FRAME_SIZE
      [] OTHER -> RNG90_STANDARD_FRAME_SIZE

FramedOps == {"selftest", "info", "random", "serial"}

Returned == pc = "done"

\* a read transaction was opened in this call
ReadOpened ==
    \E x \in 1..Len(log) : log[x] = EvAddress(RNG90_ADDRESS, TWI_Read)

\* rng90_data ran to its end in this call
FrameReceived == pc \in {"classify", "init_return", "done"} /\ ReadOpened

\* the two checksum bytes read were the checksum of the bytes read before
ChecksumMatches == dev.good

\* the caller's output object of an operation
Output(name) ==
    CASE name = "info" -> info
      [] name = "random" -> numbers
      [] OTHER -> serial

Untouched(f) == \A j \in DOMAIN f : f[j] = None

\* the output object filled from the payload the device delivered
Filled(name) ==
    CASE name = "info" ->
           [RFU |-> PayloadByte(dev, 0), DeviceID |-> PayloadByte(dev, 1),
            SiliconID |-> PayloadByte(dev, 2), Revision |-> PayloadByte(dev, 3)]
      [] name = "random" ->
           [j \in DOMAIN numbers |->
              IF j < RNG90_OPERATION_RANDOM_RNG_SIZE THEN PayloadByte(dev, j)
              ELSE None]
      [] OTHER ->
           [j \in DOMAIN serial |->
              IF j < RNG90_OPERATION_READ_SERIAL_SIZE THEN PayloadByte(dev, j)
              ELSE None]

(***************************************************************************)
(* C1: in rng90_selftest, rng90_info, rng90_random and rng90_serial, a     *)
(* failed byte write during the transmission of the command (execute byte, *)
(* header byte, filler byte or checksum byte) aborts the transaction: the  *)
(* operation returns the bus-error result and reads no response frame.     *)
(***************************************************************************)
C1_WriteFailureAborts ==
    (Returned /\ op \in FramedOps /\ wfail)
        => /\ ~ReadOpened
           /\ dev.n = 0
           /\ op \in DataOps => ret = RNG90_Status_TWI_Error

(***************************************************************************)
(* C2: rng90_info, rng90_random and rng90_serial return                    *)
(* RNG90_Status_Success only if a checksum-valid frame of the operation's  *)
(* expected length (7, 35, 19) was received in that call and the caller's  *)
(* output was filled from it; a 4-byte frame never yields Success.         *)
(***************************************************************************)
C2_SuccessOnlyWithDataFrame ==
    (Returned /\ op \in DataOps /\ ret = RNG90_Status_Success)
        => /\ FrameReceived
           /\ ChecksumMatches
           /\ rng90_frame.length = FrameSize(op)
           /\ Output(op) = Filled(op)

(***************************************************************************)
(* C3: every public operation terminates and returns a result, whatever    *)
(* bytes the bus delivers during the read, every declared length 0..255    *)
(* included: a started operation always reaches its return.                *)
(***************************************************************************)
C3_EveryOperationReturns == (pc = "tx_start") ~> Returned

(***************************************************************************)
(* C4: in rng90_info, rng90_random and rng90_serial a received frame whose *)
(* checksum does not match gives RNG90_Status_Other_Error, whatever its    *)
(* declared length (4, the expected length or any other), and the caller's *)
(* output is not filled.                                                   *)
(***************************************************************************)
C4_ChecksumMismatchIsOtherError ==
    (/\ Returned /\ op \in DataOps /\ FrameReceived
     /\ (~ChecksumMatches \/ rng90_frame.status = RNG90_Data_Status_Invalid))
        => (ret = RNG90_Status_Other_Error /\ Untouched(Output(op)))

\* rng90_random received a frame of 35 bytes whose checksum is wrong
C4_Witness ==
    /\ Returned /\ op = "random" /\ FrameReceived /\ ~ChecksumMatches
    /\ dev.len = RNG90_NUMBER_FRAME_SIZE
    /\ rng90_frame.length = RNG90_NUMBER_FRAME_SIZE
    /\ ret = RNG90_Status_Other_Error

C6_StandardFrameReturnsPayloadByte ==
    (/\ FrameReceived /\ pc \in {"init_return", "done"}
     /\ rng90_frame.length = RNG90_STANDARD_FRAME_SIZE
     /\ rng90_frame.status = RNG90_Data_Status_Valid)
        => /\ rng90_buffer[0] = PayloadByte(dev, 0)
           /\ op = "init" => st = PayloadByte(dev, 0)
           /\ (Returned /\ op # "init") => ret = PayloadByte(dev, 0)

\* rng90_serial hands on a status byte that is no RNG90_Status code
C6_Witness ==
    /\ Returned /\ op = "serial" /\ FrameReceived /\ ChecksumMatches
    /\ dev.len = RNG90_STANDARD_FRAME_SIZE
    /\ PayloadByte(dev, 0) = 171
    /\ ret = 171

(***************************************************************************)
(* C7: in rng90_random a failed write of a filler byte is followed at once *)
(* by stop: no further byte is written (no filler byte, no checksum byte), *)
(* the write is not tried again, and RNG90_Status_TWI_Error is returned.   *)
(***************************************************************************)
SetCount == Cardinality({x \in 1..Len(log) : log[x][1] = "set"})
StartCount == Cardinality({x \in 1..Len(log) : log[x] = EvStart})

C7_FillerFailureAborts ==
    /\ detected => (op = "random" /\ pc \in {"tx_abort", "done"})
    /\ (detected /\ pc = "tx_abort")
          => /\ twi = "open"
             /\ log[Len(log)] = EvSet(RNG90_OPERATION_RANDOM_DATA)
             /\ SetCount = 1 + HeaderSize + k + 1
    /\ (detected /\ Returned)
          => /\ ret = RNG90_Status_TWI_Error
             /\ twi = "closed"
             /\ log[Len(log)] = EvStop
             /\ log[Len(log) - 1] = EvSet(RNG90_OPERATION_RANDOM_DATA)
             /\ SetCount = 1 + HeaderSize + k + 1
             /\ StartCount = 1
             /\ Len(log) = SetCount + 3

\* the write of the eighth filler byte failed
C7_Witness ==
    /\ Returned /\ op = "random" /\ detected /\ k = 7
    /\ ret = RNG90_Status_TWI_Error

(***************************************************************************)
(* C8: when rng90_random returns because a write failed, the caller's      *)
(* numbers buffer is unmodified, no settle delay was executed and no read  *)
(* transaction was opened.                                                 *)
(***************************************************************************)
Waited == \E x \in 1..Len(log) : log[x][1] = "wait"

C8_AbortLeavesNoTrace ==
    (Returned /\ detected)
        => /\ Untouched(numbers)
           /\ ~Waited
           /\ ~ReadOpened
           /\ dev.n = 0
           /\ rng90_buffer = [j \in 0..(BufferSize - 1) |-> 0]

\* the write of the first filler byte failed
C8_Witness ==
    /\ Returned /\ op = "random" /\ detected /\ k = 0
    /\ SetCount = 1 + HeaderSize + 1

(***************************************************************************)
(* C9: rng90_init returns RNG90_Status_Success if and only if the DRBG     *)
(* self-test yields RNG90_SelfTest_Success, that is a valid 4-byte frame   *)
(* carrying 0x00; for every other outcome of the self-test (another status *)
(* byte, a wrong length, an invalid checksum) it returns                   *)
(* RNG90_Status_SelfTest_Error.                                            *)
(***************************************************************************)
C9_InitFollowsSelfTest ==
    (Returned /\ op = "init")
        => /\ packet.param1 = RNG90_Run_DRBG_SelfTest
           /\ ret \in {RNG90_Status_Success, RNG90_Status_SelfTest_Error}
           /\ (ret = RNG90_Status_Success) <=> (st = RNG90_SelfTest_Success)
           /\ (ret = RNG90_Status_Success)
                 <=> /\ rng90_frame.length = RNG90_STANDARD_FRAME_SIZE
                     /\ ChecksumMatches
                     /\ PayloadByte(dev, 0) = 0

\* the self-test answered "DRBG self-test failed"
C9_Witness ==
    /\ Returned /\ op = "init" /\ ChecksumMatches
    /\ dev.len = RNG90_STANDARD_FRAME_SIZE
    /\ st = RNG90_SelfTest_Fail_DBRG
    /\ ret = RNG90_Status_SelfTest_Error

(***************************************************************************)
(* C10: given a checksum-valid response frame of 7 bytes, rng90_info sets  *)
(* info.RFU, info.DeviceID, info.SiliconID and info.Revision to the        *)
(* payload bytes 0, 1, 2 and 3, unmodified and in that order, and returns  *)
(* RNG90_Status_Success.                                                   *)
(***************************************************************************)
C10_InfoFieldsFromPayload ==
    (/\ Returned /\ op = "info" /\ FrameReceived
     /\ \/ dev.len = RNG90_INFO_FRAME_SIZE /\ ChecksumMatches
        \/ /\ rng90_frame.length = RNG90_INFO_FRAME_SIZE
           /\ rng90_frame.status = RNG90_Data_Status_Valid)
        => /\ info = Filled("info")
           /\ ret = RNG90_Status_Success

\* the four fields hold four different payload bytes
C10_Witness ==
    /\ Returned /\ op = "info" /\ ChecksumMatches
    /\ dev.len = RNG90_INFO_FRAME_SIZE
    /\ info = [RFU |-> 165, DeviceID |-> 202, SiliconID |-> 239,
               Revision |-> 20]
    /\ ret = RNG90_Status_Success

(***************************************************************************)
(* C11: given a checksum-valid response frame of 35 bytes, rng90_random    *)
(* copies exactly the 32 payload bytes, in the order received, into        *)
(* numbers[0..31], writes nothing behind index 31 and returns              *)
(* RNG90_Status_Success.                                                   *)
(***************************************************************************)
C11_RandomCopiesPayload ==
    (/\ Returned /\ op = "random" /\ FrameReceived
     /\ \/ dev.len = RNG90_NUMBER_FRAME_SIZE /\ ChecksumMatches
        \/ /\ rng90_frame.length = RNG90_NUMBER_FRAME_SIZE
           /\ rng90_frame.status = RNG90_Data_Status_Valid)
        => /\ \A j \in 0..(RNG90_OPERATION_RANDOM_RNG_SIZE - 1) :
                 numbers[j] = PayloadByte(dev, j)
           /\ \A j \in DOMAIN numbers :
                 j >= RNG90_OPERATION_RANDOM_RNG_SIZE => numbers[j] = None
           /\ ret = RNG90_Status_Success

\* 32 different payload bytes arrived in numbers, the last one at index 31
C11_Witness ==
    /\ Returned /\ op = "random" /\ ChecksumMatches
    /\ dev.len = RNG90_NUMBER_FRAME_SIZE
    /\ numbers[0] = 165
    /\ numbers[RNG90_OPERATION_RANDOM_RNG_SIZE - 1] = U8(165 + 31 * 37)
    /\ numbers[RNG90_OPERATION_RANDOM_RNG_SIZE] = None
    /\ ret = RNG90_Status_Success

(***************************************************************************)
(* C12: given a checksum-valid response frame of 19 bytes (16 payload      *)
(* bytes), rng90_serial copies the payload bytes 0..7 in order into        *)
(* serial[0..7], writes nothing behind index 7 and returns                 *)
(* RNG90_Status_Success.                                                   *)
(***************************************************************************)
C12_SerialCopiesPayload ==
    (/\ Returned /\ op = "serial" /\ FrameReceived
     /\ \/ dev.len = RNG90_SERIAL_FRAME_SIZE /\ ChecksumMatches
        \/ /\ rng90_frame.length = RNG90_SERIAL_FRAME_SIZE
           /\ rng90_frame.status = RNG90_Data_Status_Valid)
        => /\ \A j \in 0..(RNG90_OPERATION_READ_SERIAL_SIZE - 1) :
                 serial[j] = PayloadByte(dev, j)
           /\ \A j \in DOMAIN serial :
                 j >= RNG90_OPERATION_READ_SERIAL_SIZE => serial[j] = None
           /\ ret = RNG90_Status_Success

\* 16 payload bytes were received, the first 8 of them arrived in serial
C12_Witness ==
    /\ Returned /\ op = "serial" /\ ChecksumMatches
    /\ dev.len = RNG90_SERIAL_FRAME_SIZE
    /\ dev.n = RNG90_SERIAL_FRAME_SIZE
    /\ rng90_buffer[RNG90_OPERATION_READ_SERIAL_SIZE] = U8(165 + 8 * 37)
    /\ serial[RNG90_OPERATION_READ_SERIAL_SIZE - 1] = U8(165 + 7 * 37)
    /\ serial[RNG90_OPERATION_READ_SERIAL_SIZE] = None
    /\ ret = RNG90_Status_Success

(***************************************************************************)
(* C13: rng90_info, rng90_random and rng90_serial leave the caller's       *)
(* output object (info, numbers, serial) completely unmodified whenever    *)
(* the received frame is not a checksum-valid frame of the operation's     *)
(* expected length: on the path that hands on the status byte of a 4-byte  *)
(* frame and on the path that returns RNG90_Status_Other_Error.            *)
(***************************************************************************)
C13_OutputUntouchedWithoutData ==
    /\ (/\ Returned /\ op \in DataOps
        /\ ~(/\ rng90_frame.length = FrameSize(op)
             /\ rng90_frame.status = RNG90_Data_Status_Valid))
          => Untouched(Output(op))
    /\ \A name \in DataOps : name # op => Untouched(Output(name))

\* rng90_info handed on the status byte "parse error" of a 4-byte frame
C13_Witness ==
    /\ Returned /\ op = "info" /\ FrameReceived /\ ChecksumMatches
    /\ rng90_frame = [length |-> RNG90_STANDARD_FRAME_SIZE,
                      status |-> RNG90_Data_Status_Valid]
    /\ ret = RNG90_Status_Parse_Error
    /\ rng90_buffer[0] = RNG90_Status_Parse_Error
    /\ Untouched(info)

(***************************************************************************)
(* C14: every value returned by rng90_info, rng90_random, rng90_serial and *)
(* rng90_init is one of the eight enumerated RNG90_Status codes, for every *)
(* response the device may send.                                           *)
(***************************************************************************)
RNG90_Status ==
    {RNG90_Status_Success, RNG90_Status_Parse_Error,
     RNG90_Status_SelfTest_Error, RNG90_Status_HealthTest_Error,
     RNG90_Status_Execution_Error, RNG90_Status_AfterWake_Indication,
     RNG90_Status_TWI_Error, RNG90_Status_Other_Error}

C14_ResultIsStatusCode ==
    (Returned /\ op \in DataOps \cup {"init"}) => ret \in RNG90_Status

(***************************************************************************)
(* C15: every value returned by rng90_selftest is one of the eight         *)
(* enumerated RNG90_SelfTest_Status codes, for every response the device   *)
(* may send.                                                               *)
(***************************************************************************)
RNG90_SelfTest_Status ==
    {RNG90_SelfTest_Success, RNG90_SelfTest_Fail_DBRG,
     RNG90_SelfTest_Not_Run_DBRG, RNG90_SelfTest_Not_Run_SHA256,
     RNG90_SelfTest_Not_Run_Neither, RNG90_SelfTest_Fail_SHA256,
     RNG90_SelfTest_Fail_DBRG_SHA256, RNG90_SelfTest_Error}

C15_ResultIsSelfTestCode ==
    /\ (Returned /\ op = "selftest") => ret \in RNG90_SelfTest_Status
    /\ (pc \in {"init_return", "done"} /\ op = "init")
          => st \in RNG90_SelfTest_Status

(***************************************************************************)
(* C16: each call of rng90_selftest, rng90_info, rng90_random or           *)
(* rng90_serial opens exactly one write transaction and at most one read   *)
(* transaction, whatever the outcome (no re-send and no re-read after an   *)
(* invalid frame, an unexpected length or an error status); rng90_init     *)
(* performs exactly one self-test round trip.                              *)
(***************************************************************************)
Count(e) == Cardinality({x \in 1..Len(log) : log[x] = e})
WriteCount == Count(EvAddress(RNG90_ADDRESS, TWI_Write))
ReadCount == Count(EvAddress(RNG90_ADDRESS, TWI_Read))
StopCount == Count(EvStop)

C16_OneAttempt ==
    /\ WriteCount <= 1
    /\ ReadCount <= 1
    /\ StartCount <= 2
    /\ Returned
          => /\ WriteCount = 1
             /\ StartCount = WriteCount + ReadCount
             /\ StopCount = StartCount
             /\ dev.n > 0 => ReadCount = 1
    /\ (Returned /\ op = "init")
          => /\ ReadCount = 1
             /\ st # None
             /\ packet.opcode = RNG90_OPERATION_SELF_TEST
             /\ Count(EvSet(RNG90_OPERATION_SELF_TEST)) = 1

\* rng90_serial returned after one frame with a wrong checksum
C16_Witness ==
    /\ Returned /\ op = "serial" /\ FrameReceived /\ ~ChecksumMatches
    /\ ret = RNG90_Status_Other_Error
    /\ WriteCount = 1 /\ ReadCount = 1

(***************************************************************************)
(* C17: in every operation whose command was transmitted exactly one       *)
(* blocking delay of the operation's settle time (selftest 32 ms, random   *)
(* 75 ms, info 1 ms, serial 1 ms) occurs; it lies after the stop of the    *)
(* write transaction and before the start of the read transaction, and no  *)
(* response byte is read before it.                                        *)
(***************************************************************************)
SettleTime ==
    CASE op \in {"init", "selftest"} -> 32
      [] op = "random" -> 75
      [] OTHER -> 1

WaitCount == Cardinality({x \in 1..Len(log) : log[x][1] = "wait"})

C17_OneSettleDelay ==
    /\ WaitCount <= 1
    /\ \A x \in 1..Len(log) :
          log[x][1] = "wait"
             => /\ log[x] = EvWait(SettleTime)
                /\ x > 1 /\ log[x - 1] = EvStop
                /\ \A y \in 1..Len(log) :
                      log[y][1] = "address" /\ log[y][3] = TWI_Read => y = x + 2
                /\ x < Len(log) => log[x + 1] = EvStart
    /\ (ReadOpened \/ dev.n > 0) => WaitCount = 1
    /\ (Returned /\ ~detected) => WaitCount = 1

\* rng90_random waited 75 ms between its two transactions
C17_Witness ==
    /\ Returned /\ op = "random" /\ FrameReceived
    /\ Count(EvWait(75)) = 1
    /\ WaitCount = 1

(***************************************************************************)
(* C18: for every command frame put on the bus, the transmitted count byte *)
(* equals 7 plus the number of extra payload bytes: 7 for selftest, info   *)
(* and serial, 27 for random (20 filler bytes).                            *)
(***************************************************************************)
IsSet(e) == e[1] = "set"

\* the bytes written on the bus so far: the execute command byte first
Sets == SelectSeq(log, IsSet)

\* filler bytes of the frame: what lies between the five header bytes and
\* the two checksum bytes
ExtraCount == Len(Sets) - 1 - HeaderSize - RNG90_CRC_SIZE

C18_CountIsSevenPlusExtra ==
    /\ Len(Sets) >= 2
          => Sets[2] = EvSet(IF op = "random" THEN 27 ELSE 7)
    /\ (StopCount >= 1 /\ ~detected)
          => /\ ExtraCount = (IF op = "random" THEN 20 ELSE 0)
             /\ Sets[2] = EvSet(7 + ExtraCount)

\* rng90_random sent the count 27 and, behind the header, 20 filler bytes
C18_Witness ==
    /\ op = "random" /\ StopCount >= 1 /\ ~detected
    /\ Sets[2] = EvSet(27)
    /\ ExtraCount = 20

(***************************************************************************)
(* C19: on every successfully completed transmission the transmitted count *)
(* byte equals the number of bytes written on the bus for the frame, from  *)
(* the count byte itself to the second checksum byte (the execute command  *)
(* byte not counted), with a 16-bit param2.                                *)
(***************************************************************************)
C19_CountIsFrameLength ==
    (StopCount >= 1 /\ ~detected)
        => /\ Len(Sets) >= 2
           /\ Sets[1] = EvSet(RNG90_EXECUTE_COMMAND)
           /\ Sets[2] = EvSet(Len(Sets) - 1)
           /\ packet.count = Len(Sets) - 1

\* rng90_info wrote the execute byte and a frame of 7 bytes
C19_Witness ==
    /\ Returned /\ op = "info"
    /\ Len(Sets) = 8
    /\ Sets[2] = EvSet(7)

(***************************************************************************)
(* C20: every write transaction consists, in this order, of: start,        *)
(* address (0x40, write), the execute command byte 0x03, count, opcode,    *)
(* param1, param2 low byte, param2 high byte, the operation's extra        *)
(* payload bytes (random only), checksum low byte, checksum high byte,     *)
(* stop.                                                                   *)
(***************************************************************************)
\* the extra payload bytes of the operation
ExtraPayload ==
    IF op = "random"
    THEN [j \in 1..20 |-> EvSet(RNG90_OPERATION_RANDOM_DATA)]
    ELSE <<>>

\* the write transaction of the operation as the statement lists it
WriteTransaction ==
    <<EvStart, EvAddress(64, TWI_Write), EvSet(3), EvSet(packet.count),
      EvSet(packet.opcode), EvSet(packet.param1), EvSet(Lo(packet.param2)),
      EvSet(Hi(packet.param2))>>
    \o ExtraPayload
    \o <<EvSet(Lo(packet.crc)), EvSet(Hi(packet.crc)), EvStop>>

\* the calls of the write transaction made so far: the log up to its stop
WriteLen ==
    IF StopCount = 0 THEN Len(log)
    ELSE CHOOSE x \in 1..Len(log) :
            log[x] = EvStop /\ \A y \in 1..(x - 1) : log[y] # EvStop

\* the calls made so far are the first calls of the listed transaction
InListedOrder ==
    /\ WriteLen <= Len(WriteTransaction)
    /\ \A x \in 1..WriteLen : log[x] = WriteTransaction[x]

\* the statement as it stands: every closed write transaction is the listed
\* one
C20_EveryWriteTransaction ==
    StopCount >= 1
        => (InListedOrder /\ WriteLen = Len(WriteTransaction))

\* a write transaction that is not cut short by a failed filler write is the
\* listed one, call by call; the one that is cut short is the listed one up
\* to the failed filler byte, followed by stop
C20_WriteTransactionNotAborted ==
    /\ ~detected => InListedOrder
    /\ (StopCount >= 1 /\ ~detected) => WriteLen = Len(WriteTransaction)
    /\ detected
          => /\ \A x \in 1..(WriteLen - 1) :
                   x <= Len(log) /\ log[x] # EvStop => log[x] = WriteTransaction[x]
             /\ WriteLen < Len(WriteTransaction)

\* the self-test of both engines was sent: 03 07 77 21 00 00 and checksum
C20_Witness ==
    /\ Returned /\ op = "selftest"
    /\ packet.param1 = RNG90_Run_DBRG_SHA256_SelfTest
    /\ WriteLen = 11
    /\ log[5] = EvSet(119)
    /\ log[6] = EvSet(33)
    /\ log[11] = EvStop

\* the checksum engine run from register c over the bytes of seq[from..to];
\* the register is looked at before each step, so that it is a number and
\* not a computation still to be done when the next byte is taken
RECURSIVE CrcOver(_, _, _, _)
CrcOver(c, seq, from, to) ==
    IF from > to \/ c \notin 0..65535 THEN c
    ELSE CrcOver(crc16_update(c, seq[from][2]), seq, from + 1, to)

(***************************************************************************)
(* C21: the checksum transmitted with a command frame is the result of the *)
(* checksum engine, started from the initial value, over exactly the frame *)
(* bytes that precede it in wire order (count, opcode, param1, both bytes  *)
(* of param2 and every filler byte); the execute command byte and the      *)
(* checksum bytes are not accumulated; the low byte is sent first.  Looked *)
(* at when the transmission has just ended and when the operation has      *)
(* returned: the calls of the write transaction do not change in between.  *)
(***************************************************************************)
C21_TransmittedChecksum ==
    (pc \in {"wait", "done"} /\ ~detected)
        => LET w == WriteLen
               sum == CrcOver(CRC16_INITIAL_VALUE, log, 4, w - 3)
           IN  /\ w >= 3 + HeaderSize + RNG90_CRC_SIZE + 1
               /\ log[3] = EvSet(RNG90_EXECUTE_COMMAND)
               /\ log[w - 2] = EvSet(Lo(sum))
               /\ log[w - 1] = EvSet(Hi(sum))
               /\ log[w] = EvStop
               /\ packet.crc = sum

\* the Info command went out as 03 07 30 00 00 00 03 5D
C21_Witness ==
    /\ Returned /\ op = "info"
    /\ Len(Sets) = 8
    /\ Sets[2] = EvSet(7) /\ Sets[3] = EvSet(48)
    /\ Sets[7] = EvSet(3) /\ Sets[8] = EvSet(93)

(***************************************************************************)
(* C22: for every declared length L with 3 <= L <= 255 the receiver reads  *)
(* exactly L bytes inside one read transaction addressed to 0x40: the      *)
(* length byte, then L - 3 payload bytes stored in received order at       *)
(* buffer[0..L-4], then two checksum bytes; every read is acknowledged     *)
(* except the very last one, which is read with NACK, and stop follows it. *)
(***************************************************************************)
C22_ReadsDeclaredLength ==
    (FrameReceived /\ dev.len >= 3)
        => /\ dev.n = dev.len
           /\ \A j \in 0..(dev.len - 4) :
                 j \in DOMAIN rng90_buffer
                    /\ rng90_buffer[j] = PayloadByte(dev, j)
           /\ dev.nacks = 1
           /\ dev.last = TWI_NACK
           /\ ReadCount = 1
           /\ Count(EvAddress(64, TWI_Read)) = 1
           /\ StopCount = 2
           /\ twi = "closed"

(***************************************************************************)
(* C23: the frame the receiver returns is marked Valid if and only if the  *)
(* received 16-bit checksum, assembled with the first checksum byte as low *)
(* byte and the second as high byte, equals the result of the checksum     *)
(* engine over the length byte followed by all payload bytes; otherwise it *)
(* is marked Invalid.                                                      *)
(***************************************************************************)
C23_ValidIffChecksumMatches ==
    FrameReceived
        => /\ rng90_frame.status
                 \in {RNG90_Data_Status_Valid, RNG90_Data_Status_Invalid}
           /\ (rng90_frame.status = RNG90_Data_Status_Valid) <=> (crc = dev.crc)
           /\ (rng90_frame.status = RNG90_Data_Status_Valid) <=> ChecksumMatches
           /\ crc16 = dev.crc

\* a frame whose first checksum byte matched and whose second did not
C23_Witness ==
    /\ FrameReceived
    /\ dev.len = RNG90_INFO_FRAME_SIZE
    /\ Lo(crc) = Lo(dev.crc)
    /\ Hi(crc) # Hi(dev.crc)
    /\ rng90_frame.status = RNG90_Data_Status_Invalid

(***************************************************************************)
(* C24: the receiver always returns a frame whose length field equals the  *)
(* first byte read in that call, whether or not the checksum matched, and  *)
(* after it returns the receive buffer holds the raw payload bytes of that *)
(* frame, whatever its validity.                                           *)
(***************************************************************************)
C24_LengthIsFirstByte ==
    FrameReceived
        => /\ rng90_frame.length = dev.len
           /\ \A j \in 0..(dev.len - 4) :
                 j \in DOMAIN rng90_buffer
                    => rng90_buffer[j] = PayloadByte(dev, j)

(***************************************************************************)
(* C29: for every declared length byte 0..255 delivered by the bus, every  *)
(* write the receiver performs into the 87-byte receive buffer is at an    *)
(* index in 0..86.                                                         *)
(***************************************************************************)
C29_StoresInsideBuffer == ~oob

(***************************************************************************)
(* C25: round trip.  When the exact bytes of a transmitted command frame   *)
(* (count through checksum, execute byte excluded) are fed back to the     *)
(* receiver through a loopback transport, the checksum the receiver        *)
(* accumulates equals the checksum the transmitter appended, so the        *)
(* looped-back frame is reported Valid with length equal to count.         *)
(***************************************************************************)
C25_LoopbackIsValid ==
    FrameReceived
        => /\ crc16 = packet.crc
           /\ crc = packet.crc
           /\ rng90_frame.status = RNG90_Data_Status_Valid
           /\ rng90_frame.length = packet.count
           /\ dev.n = packet.count

\* the 27 bytes of the command frame of rng90_random came back
C25_Witness ==
    /\ Returned
    /\ FrameReceived
    /\ op = "random"
    /\ rng90_frame.length = SizeofPacket + RNG90_OPERATION_RANDOM_DATA_SIZE
    /\ rng90_frame.status = RNG90_Data_Status_Valid
    /\ \A j \in 0..(RNG90_OPERATION_RANDOM_DATA_SIZE - 1) :
          rng90_buffer[4 + j] = RNG90_OPERATION_RANDOM_DATA

\* the flipped byte is a payload or checksum byte of the frame
FaultHit == dev.fpos \in 1..(dev.len - 1)

(***************************************************************************)
(* C26: for every frame that the receiver reports Valid, flipping any      *)
(* single bit of one of its payload bytes or of one of its two checksum    *)
(* bytes (length byte unchanged) makes the receiver report the frame       *)
(* Invalid.  The device sends a frame with its right checksum; the frame   *)
(* arrives Valid when the flipped byte lies behind its end, and Invalid    *)
(* when the flipped byte is one of its bytes.                              *)
(***************************************************************************)
C26_SingleBitFlipIsInvalid ==
    FrameReceived /\ dev.fpos > 0
        => /\ ~FaultHit => rng90_frame.status = RNG90_Data_Status_Valid
           /\ FaultHit => rng90_frame.status = RNG90_Data_Status_Invalid

\* the top bit of the high checksum byte of a serial number frame flipped
C26_Witness ==
    /\ FrameReceived
    /\ dev.len = RNG90_SERIAL_FRAME_SIZE
    /\ dev.fpos = RNG90_SERIAL_FRAME_SIZE - 1
    /\ dev.fbit = 7
    /\ Lo(crc) = Lo(dev.crc)
    /\ Hi(crc) = FlipBit(Hi(dev.crc), 7)
    /\ rng90_frame.status = RNG90_Data_Status_Invalid

RECURSIVE WellBracketed(_, _)
\* the calls from number x of the log on are well bracketed, the bus being
\* open or not before them
WellBracketed(x, open) ==
    IF x > Len(log) THEN TRUE
    ELSE CASE log[x][1] = "start" -> ~open /\ WellBracketed(x + 1, TRUE)
           [] log[x][1] = "stop" -> open /\ WellBracketed(x + 1, FALSE)
           [] log[x][1] \in {"address", "set"} ->
                open /\ WellBracketed(x + 1, open)
           [] OTHER -> WellBracketed(x + 1, open)

\* the positions whose next step is twi_address, twi_set or twi_get
BusCallSites ==
    {"tx_address", "tx_execute", "tx_header", "tx_filler", "tx_crc_lo",
     "tx_crc_hi", "rx_address", "rx_loop", "rx_crc_hi"}

(***************************************************************************)
(* C30: on every path of every public operation, including the bus-error   *)
(* path of rng90_random, bus transactions are well bracketed: each start   *)
(* is followed by exactly one stop before the next start or before the     *)
(* operation returns, every address, write and read call happens between a *)
(* start and its stop, and the bus is closed when the operation returns.   *)
(***************************************************************************)
C30_BusWellBracketed ==
    /\ WellBracketed(1, FALSE)
    /\ (twi = "open") <=> (StartCount = StopCount + 1)
    /\ (twi = "closed") <=> (StartCount = StopCount)
    /\ pc \in BusCallSites => twi = "open"
    /\ pc \in {"tx_start", "rx_start"} => twi = "closed"
    /\ Returned => twi = "closed"

\* rng90_random left on a failed write of a filler byte, its only
\* transaction stopped
C30_Witness ==
    /\ Returned
    /\ op = "random"
    /\ detected
    /\ ret = RNG90_Status_TWI_Error
    /\ StartCount = 1
    /\ log[Len(log)] = EvStop
    /\ twi = "closed"

(***************************************************************************)
(* What an operation returns and writes as a function of what the bus      *)
(* delivered: d is the device's side of a read transaction.                *)
(***************************************************************************)
DeliveredFrame(d) ==
    [length |-> d.len,
     status |-> IF d.good THEN RNG90_Data_Status_Valid
                ELSE RNG90_Data_Status_Invalid]

DeliveredBuffer(d) == [j \in 0..(BufferSize - 1) |-> PayloadByte(d, j)]

\* what operation name returns and writes when it classifies frame f with
\* the receive buffer holding buf
ResultFor(name, f, buf) ==
    CASE name = "init" -> InitResult(SelfTestResult(f, buf))
      [] name = "selftest" -> SelfTestResult(f, buf)
      [] OTHER -> DataResult(f, buf, FrameSize(name))

InfoFor(name, f, buf) ==
    IF name = "info" /\ TakesData(f, RNG90_INFO_FRAME_SIZE)
    THEN InfoFields(buf) ELSE FreshContext.info

NumbersFor(name, f, buf) ==
    IF name = "random" /\ TakesData(f, RNG90_NUMBER_FRAME_SIZE)
    THEN CopyBuffer(FreshContext.numbers, buf, RNG90_OPERATION_RANDOM_RNG_SIZE)
    ELSE FreshContext.numbers

SerialFor(name, f, buf) ==
    IF name = "serial" /\ TakesData(f, RNG90_SERIAL_FRAME_SIZE)
    THEN CopyBuffer(FreshContext.serial, buf, RNG90_OPERATION_READ_SERIAL_SIZE)
    ELSE FreshContext.serial

\* the operation returned what it returns, and wrote what it writes, for
\* frame f and buffer contents buf
ClassifiedAs(f, buf) ==
    /\ ret = ResultFor(op, f, buf)
    /\ info = InfoFor(op, f, buf)
    /\ numbers = NumbersFor(op, f, buf)
    /\ serial = SerialFor(op, f, buf)

\* ... for the bytes of d
ClassifiedFrom(d) == ClassifiedAs(DeliveredFrame(d), DeliveredBuffer(d))

\* every byte handed to the caller is a byte of d or was never written
TakenFrom(d) ==
    /\ ret \in {RNG90_Status_Success, RNG90_Status_Other_Error,
                 RNG90_Status_SelfTest_Error, RNG90_SelfTest_Error,
                 PayloadByte(d, 0)}
    /\ info.RFU \in {None, PayloadByte(d, 0)}
    /\ info.DeviceID \in {None, PayloadByte(d, 1)}
    /\ info.SiliconID \in {None, PayloadByte(d, 2)}
    /\ info.Revision \in {None, PayloadByte(d, 3)}
    /\ \A j \in DOMAIN numbers : numbers[j] \in {None, PayloadByte(d, j)}
    /\ \A j \in DOMAIN serial : serial[j] \in {None, PayloadByte(d, j)}

\* the operation returned without a read transaction
LeftOnBusError ==
    /\ ret = RNG90_Status_TWI_Error
    /\ info = FreshContext.info
    /\ numbers = FreshContext.numbers
    /\ serial = FreshContext.serial

(***************************************************************************)
(* C27: no state persists between calls.  The result and outputs of any    *)
(* operation are a function only of its argument and of the bytes and      *)
(* write outcomes the bus delivers during that call; running earlier       *)
(* operations beforehand (which leaves data in the shared receive buffer,  *)
(* frame descriptor and checksum engine) never changes them, because every *)
(* buffer byte a classifier reads was written by the current receive.      *)
(* In a first call and in a call after another one alike, the operation    *)
(* returns and writes what the bytes delivered in this call determine;     *)
(* where stores fell outside the buffer, every byte handed to the caller   *)
(* is still a byte delivered in this call.                                 *)
(***************************************************************************)
C27_NoStateBetweenCalls ==
    Returned
        => IF ReadOpened
           THEN /\ ~oob => ClassifiedFrom(dev)
                /\ TakenFrom(dev)
           ELSE LeftOnBusError

\* a self-test after a call that left 32 payload bytes in the buffer and a
\* valid frame of 35 bytes: the code returned is the byte of this call, and
\* behind it the buffer still holds the earlier call's bytes
C27_Witness ==
    /\ Returned
    /\ parked.state = "earlier"
    /\ parked.dev.len = RNG90_NUMBER_FRAME_SIZE
    /\ parked.dev.good
    /\ op = "selftest"
    /\ dev.len = RNG90_STANDARD_FRAME_SIZE
    /\ dev.good
    /\ PayloadByte(dev, 0) # PayloadByte(parked.dev, 0)
    /\ ret = PayloadByte(dev, 0)
    /\ rng90_buffer[1] = PayloadByte(parked.dev, 1)
    /\ rng90_buffer[1] # PayloadByte(dev, 1)

\* the receive buffer with the payload of own, and over it the payload that
\* other received afterwards
OverwrittenBuffer(own, other) ==
    [j \in 0..(BufferSize - 1) |->
        IF j < other.len - (1 + RNG90_CRC_SIZE) THEN PayloadByte(other, j)
        ELSE PayloadByte(own, j)]

InterruptedBeforeClassification ==
    parked.state = "finished" /\ parked.at = "classify"

(***************************************************************************)
(* C28: the engine is not reentrant.  Since the receive buffer, the frame  *)
(* descriptor and the checksum engine are shared across calls,             *)
(* interleaving the steps of two operations without mutual exclusion can   *)
(* reach a state in which one operation returns a result or copies payload *)
(* derived from bytes received by the other operation.                     *)
(* An operation that was interrupted between the return of rng90_data and  *)
(* the classification, by a handler that called an operation, classifies   *)
(* its own frame over a buffer whose first elements hold the payload the   *)
(* handler's operation received; the handler's operation, and an operation *)
(* interrupted before its read transaction, classify their own bytes.      *)
(***************************************************************************)
C28_InterruptedClassifiesOthersBytes ==
    Returned /\ ReadOpened
        => IF InterruptedBeforeClassification
           THEN ClassifiedAs(DeliveredFrame(dev),
                             OverwrittenBuffer(dev, parked.dev))
           ELSE ClassifiedFrom(dev)

\* rng90_info, interrupted by a self-test, reports success and hands out as
\* RFU the status byte that the self-test received
C28_Witness ==
    /\ Returned
    /\ InterruptedBeforeClassification
    /\ op = "info"
    /\ dev.len = RNG90_INFO_FRAME_SIZE
    /\ dev.good
    /\ parked.op = "selftest"
    /\ parked.dev.len = RNG90_STANDARD_FRAME_SIZE
    /\ parked.ret = PayloadByte(parked.dev, 0)
    /\ ret = RNG90_Status_Success
    /\ info.RFU = PayloadByte(parked.dev, 0)
    /\ info.RFU # PayloadByte(dev, 0)
    /\ info.DeviceID = PayloadByte(dev, 1)

(***************************************************************************)
(* C31: rng90_info, rng90_random and rng90_serial return                   *)
(* RNG90_Status_TWI_Error only when a bus byte write actually failed       *)
(* during that call; a device response alone can never make an operation   *)
(* report a bus error.                                                     *)
(***************************************************************************)
C31_BusErrorOnlyAfterFailedWrite ==
    (Returned /\ op \in DataOps /\ ret = RNG90_Status_TWI_Error) => wfail

C32_WitnessLength ==
    /\ Returned /\ op = "selftest" /\ FrameReceived /\ ChecksumMatches
    /\ packet.param1 \in {RNG90_Run_DRBG_SelfTest, RNG90_Run_SHA256_SelfTest}
    /\ frame = [length |-> RNG90_INFO_FRAME_SIZE,
                status |-> RNG90_Data_Status_Valid]
    /\ ret = RNG90_SelfTest_Error

(***************************************************************************)
(* The header in the words of the statement: opcode, param1 and the two    *)
(* bytes of param2, which follow start, address, execute byte and count in *)
(* the log.                                                                *)
(***************************************************************************)
StatedHeader ==
    CASE op = "init" -> <<119, 1, 0, 0>>
      [] op = "selftest" -> <<119, packet.param1, 0, 0>>
      [] op = "info" -> <<48, 0, 0, 0>>
      [] op = "serial" -> <<2, 1, 0, 0>>
      [] op = "random" -> <<22, 0, 0, 0>>
      [] OTHER -> <<>>

HeaderWritten == Len(log) >= 8

HeaderAsStated ==
    HeaderWritten
        => /\ \A x \in 1..4 : log[4 + x] = EvSet(StatedHeader[x])
           /\ op = "selftest" => packet.param1 \in {1, 32, 33}

\* the write transaction was stopped
WriteStopped == StopCount >= 1

\* the calls number 9 to last of the log write the filler byte 0x00
FillersTo(last) == \A x \in 9..last : log[x] = EvSet(0)

\* C33 as stated: every stopped transmission of rng90_random has header,
\* 20 filler bytes, two checksum bytes and the stop
C33_FixedHeaderAndTwentyFillers ==
    /\ HeaderAsStated
    /\ WriteStopped
          => IF op = "random"
             THEN WriteLen = 31 /\ FillersTo(28)
             ELSE WriteLen = 11

(***************************************************************************)
(* C33: each operation transmits its own fixed header: selftest sends      *)
(* opcode 0x77 with param1 equal to the requested variant (0x01, 0x20 or   *)
(* 0x21) and param2 0x0000; info sends 0x30 / 0x00 / 0x0000; serial sends  *)
(* 0x02 / 0x01 / 0x0000; random sends 0x16 / 0x00 / 0x0000 followed by     *)
(* exactly 20 filler bytes of value 0x00, unless the write of a filler     *)
(* byte fails: then the failed write is the last one of the transmission;  *)
(* rng90_init transmits the selftest frame with param1 0x01.               *)
(***************************************************************************)
C33_FixedHeaderAndFillers ==
    /\ HeaderAsStated
    /\ WriteStopped
          => IF op = "random"
             THEN IF detected
                  THEN WriteLen \in 10..29 /\ FillersTo(WriteLen - 1)
                  ELSE WriteLen = 31 /\ FillersTo(28)
             ELSE WriteLen = 11

\* rng90_random wrote its header, 20 filler bytes and the checksum
C33_Witness ==
    /\ Returned
    /\ op = "random"
    /\ ~detected
    /\ HeaderWritten
    /\ log[5] = EvSet(22)
    /\ WriteLen = 31
    /\ FillersTo(28)
    /\ log[31] = EvStop

\* rng90_random stopped after the failed write of its third filler byte
C33_WitnessAborted ==
    /\ Returned
    /\ op = "random"
    /\ detected
    /\ WriteLen = 12
    /\ FillersTo(11)

\* the checksum engine run from its initial value over the bytes written by
\* the calls number 4 (the count byte) to last of the log
Accumulated(last) == CrcOver(CRC16_INITIAL_VALUE, log, 4, last)

(***************************************************************************)
(* C34: in rng90_random a filler byte is accumulated into the checksum     *)
(* only after its bus write succeeded, the checksum result is taken only   *)
(* after all 20 filler bytes were written and accumulated, and the         *)
(* checksum engine is initialised exactly once per transmission, before    *)
(* the first header byte is accumulated.  At each position of the          *)
(* transmission the register is the checksum, from the initial value, of   *)
(* the header bytes and of the filler bytes written with success so far.   *)
(***************************************************************************)
C34_FillerAccumulatedAfterWrite ==
    op = "random"
        => /\ pc = "tx_execute" => crc16 = CRC16_INITIAL_VALUE
           /\ pc = "tx_header"
                 => Len(log) = 3 + k /\ crc16 = Accumulated(3 + k)
           /\ pc = "tx_filler"
                 => /\ ~detected
                    /\ Len(log) = 8 + k
                    /\ FillersTo(8 + k)
                    /\ crc16 = Accumulated(8 + k)
           /\ pc = "tx_abort"
                 => /\ detected
                    /\ Len(log) = 9 + k
                    /\ FillersTo(9 + k)
                    /\ crc16 = Accumulated(8 + k)
           /\ pc = "tx_crc_lo"
                 => /\ ~detected
                    /\ Len(log) = 28
                    /\ FillersTo(28)
                    /\ crc16 = Accumulated(28)
           /\ pc = "tx_crc_hi"
                 => /\ Len(log) = 29
                    /\ packet.crc = Accumulated(28)
                    /\ log[29] = EvSet(Lo(packet.crc))

\* in a call after another one: the write of the third filler byte failed,
\* and the register is the checksum of the header and two filler bytes, not
\* of three
C34_Witness ==
    /\ op = "random"
    /\ pc = "tx_abort"
    /\ parked.state = "earlier"
    /\ k = 2
    /\ Len(log) = 11
    /\ crc16 = Accumulated(10)
    /\ crc16 # Accumulated(11)

=============================================================================
